---- MODULE Spec2Model ----
(***************************************************************************)
(* Model of skills/md2ipynb/scripts/convert.py: the markdown to notebook   *)
(* cell pipeline (front matter removal, fence-aware splitting on ---,      *)
(* extraction of fenced code blocks by regular expression, filtering).     *)
(*                                                                         *)
(* A Python str is a sequence of one-character strings; a Python list is a *)
(* sequence; the character "\n" is the line separator.                     *)
(***************************************************************************)
EXTENDS Naturals, Sequences, FiniteSets, TLC

VARIABLES pc, args_code_languages, code_languages, content, pm_content,
          lines, idx, sections, current_section, in_code_block,
          sec_idx, cells, nb_cells

vars == <<pc, args_code_languages, code_languages, content, pm_content,
          lines, idx, sections, current_section, in_code_block,
          sec_idx, cells, nb_cells>>

----------------------------------------------------------------------------
(* Characters and the str methods the code uses *)

NL == "\n"

Whitespace == {" ", "\t", NL}

LowerLetters == {"a","b","c","d","e","f","g","h","i","j","k","l","m",
                 "n","o","p","q","r","s","t","u","v","w","x","y","z"}

UpperToLower == [A |-> "a", B |-> "b", C |-> "c", D |-> "d", E |-> "e",
                 F |-> "f", G |-> "g", H |-> "h", I |-> "i", J |-> "j",
                 K |-> "k", L |-> "l", M |-> "m", N |-> "n", O |-> "o",
                 P |-> "p", Q |-> "q", R |-> "r", S |-> "s", T |-> "t",
                 U |-> "u", V |-> "v", W |-> "w", X |-> "x", Y |-> "y",
                 Z |-> "z"]

UpperLetters == DOMAIN UpperToLower

Digits == {"0","1","2","3","4","5","6","7","8","9"}

\* the class \w of the pattern
IsWord(c) == c \in LowerLetters \cup UpperLetters \cup Digits \cup {"_"}

LowerChar(c) == IF c \in UpperLetters THEN UpperToLower[c] ELSE c

\* str.lower()
Lower(s) == [i \in 1..Len(s) |-> LowerChar(s[i])]

RECURSIVE LStrip(_)
LStrip(s) ==
    IF s = <<>> THEN s
    ELSE IF Head(s) \in Whitespace THEN LStrip(Tail(s)) ELSE s

RECURSIVE RStrip(_)
\* str.rstrip()
RStrip(s) ==
    IF s = <<>> THEN s
    ELSE IF s[Len(s)] \in Whitespace THEN RStrip(SubSeq(s, 1, Len(s) - 1))
         ELSE s

\* str.strip()
Strip(s) == RStrip(LStrip(s))

\* str.startswith(prefix)
StartsWith(s, prefix) ==
    Len(s) >= Len(prefix) /\ SubSeq(s, 1, Len(prefix)) = prefix

RECURSIVE Split(_, _)
\* str.split(sep) for a one-character separator: never an empty list
Split(s, sep) ==
    IF \A i \in 1..Len(s) : s[i] # sep THEN <<s>>
    ELSE LET i == CHOOSE i \in 1..Len(s) :
                      s[i] = sep /\ \A j \in 1..(i - 1) : s[j] # sep
         IN  <<SubSeq(s, 1, i - 1)>> \o Split(SubSeq(s, i + 1, Len(s)), sep)

RECURSIVE Join(_, _)
\* sep.join(list)
Join(list, sep) ==
    IF list = <<>> THEN <<>>
    ELSE IF Len(list) = 1 THEN list[1]
    ELSE list[1] \o sep \o Join(Tail(list), sep)

\* s[from:] and s[from:to] with 1-based from and exclusive 1-based to
Slice(s, from, to) == SubSeq(s, from, to - 1)

----------------------------------------------------------------------------
(* Constants of the format *)

Delimiter == <<"-", "-", "-">>

\* the character U+0060 (grave accent), which a TLA+ string cannot hold
Backtick == "BACKTICK"

Fence == <<Backtick, Backtick, Backtick>>

python == <<"p","y","t","h","o","n">>

sql == <<"s","q","l">>

DEFAULT_CODE_LANGUAGES == {python, sql}

None == <<"None">>

----------------------------------------------------------------------------
(* remove_front_matter *)

RECURSIVE FrontMatterScan(_, _, _)
\* the for loop: the value of end_index when the loop ends (0 when it never
\* breaks); k is the 1-based index of the line, so end_index = i + 1 = k
FrontMatterScan(ls, k, in_front_matter) ==
    IF k > Len(ls) THEN 0
    ELSE IF Strip(ls[k]) = Delimiter
         THEN IF ~in_front_matter
              THEN FrontMatterScan(ls, k + 1, TRUE)
              ELSE k
         ELSE FrontMatterScan(ls, k + 1, in_front_matter)

FrontMatterGuard(text) == StartsWith(text, Delimiter)

\* a strip that removes the opening line of an unterminated block
remove_front_matter_partial(text) ==
    IF ~FrontMatterGuard(text) THEN text
    ELSE LET ls == Split(text, NL)
             end_index == FrontMatterScan(ls, 1, FALSE)
         IN  Join(SubSeq(ls, (IF end_index > 0 THEN end_index ELSE 1) + 1, Len(ls)),
                  <<NL>>)

remove_front_matter(text) ==
    IF ~FrontMatterGuard(text) THEN text
    ELSE LET ls == Split(text, NL)
             end_index == FrontMatterScan(ls, 1, FALSE)
         IN  IF end_index > 0
             THEN Join(SubSeq(ls, end_index + 1, Len(ls)), <<NL>>)
             ELSE text

----------------------------------------------------------------------------
(* split_by_delimiter *)

\* a fence test that misses the language tag
IsFenceLineExact(line) == Strip(line) = Fence

\* stripped.startswith(fence marker)
IsFenceLine(line) == StartsWith(Strip(line), Fence)

\* '\n'.join(current_section).strip(), appended when not empty
SaveSection(secs, cur) ==
    LET section_content == Strip(Join(cur, <<NL>>))
    IN  IF section_content # <<>> THEN Append(secs, section_content) ELSE secs

\* a split that forgets the code block state
IsSplitPointNaive(in_block, line) == Strip(line) = Delimiter

\* the condition of the delimiter branch
IsSplitPoint(in_block, line) == ~in_block /\ Strip(line) = Delimiter

\* one iteration of the for loop over lines
SplitStep(st, line) ==
    IF IsFenceLine(line)
    THEN [st EXCEPT !.in_code_block = ~@,
                    !.current_section = Append(@, line)]
    ELSE IF IsSplitPoint(st.in_code_block, line)
    THEN [st EXCEPT !.sections = SaveSection(@, st.current_section),
                    !.current_section = <<>>]
    ELSE [st EXCEPT !.current_section = Append(@, line)]

\* a loop that forgets the last section
SplitFlushDropsLast(secs, cur) == secs

\* the flush after the loop
SplitFlush(secs, cur) == SaveSection(secs, cur)

RECURSIVE SplitLoop(_, _, _)
SplitLoop(ls, k, st) ==
    IF k > Len(ls) THEN st ELSE SplitLoop(ls, k + 1, SplitStep(st, ls[k]))

split_by_delimiter(text) ==
    LET st == SplitLoop(Split(text, NL), 1,
                        [sections |-> <<>>, current_section |-> <<>>,
                         in_code_block |-> FALSE])
    IN  SplitFlush(st.sections, st.current_section)

----------------------------------------------------------------------------
\* extract_cells_from_section. The pattern is: line start, fence marker,
\* a group of zero or more word characters (greedy), newline, a lazy group of
\* any characters (DOTALL), line start, fence marker, line end (MULTILINE).
\* Positions are 1-based.

\* ^ with MULTILINE: the start of the string or just after a newline
AtLineStart(s, p) == p = 1 \/ s[p - 1] = NL

\* $ with MULTILINE: the end of the string or just before a newline
AtLineEnd(s, p) == p = Len(s) + 1 \/ (p <= Len(s) /\ s[p] = NL)

HasAt(s, p, lit) ==
    p + Len(lit) - 1 <= Len(s) /\ SubSeq(s, p, p + Len(lit) - 1) = lit

RECURSIVE WordRun(_, _)
\* the greedy word group: the position after the run of word characters from p
WordRun(s, p) ==
    IF p <= Len(s) /\ IsWord(s[p]) THEN WordRun(s, p + 1) ELSE p

\* the opening part of the pattern at p: fence, word characters, newline
OpensAt(s, p) ==
    /\ AtLineStart(s, p)
    /\ HasAt(s, p, Fence)
    /\ LET q == WordRun(s, p + 3) IN q <= Len(s) /\ s[q] = NL

\* the closing part of the pattern at c: a line that is the fence marker
ClosesAt(s, c) ==
    AtLineStart(s, c) /\ HasAt(s, c, Fence) /\ AtLineEnd(s, c + 3)

\* the lazy group: the closing fence is the first one from the body's start
MatchesAt(s, p) ==
    /\ OpensAt(s, p)
    /\ \E c \in (WordRun(s, p + 3) + 1)..Len(s) : ClosesAt(s, c)

\* the match object: start() and end() (exclusive), group(1), group(2)
MatchAt(s, p) ==
    LET q == WordRun(s, p + 3)
        c == CHOOSE c \in (q + 1)..Len(s) :
                 ClosesAt(s, c) /\ \A d \in (q + 1)..(c - 1) : ~ClosesAt(s, d)
    IN  [start |-> p, end |-> c + 3,
         group1 |-> Slice(s, p + 3, q), group2 |-> Slice(s, q + 1, c)]

RECURSIVE FindIter(_, _)
\* code_block_pattern.finditer(section): non-overlapping, left to right
FindIter(s, pos) ==
    IF \A p \in pos..Len(s) : ~MatchesAt(s, p) THEN <<>>
    ELSE LET p == CHOOSE p \in pos..Len(s) :
                      MatchesAt(s, p) /\ \A r \in pos..(p - 1) : ~MatchesAt(s, r)
             m == MatchAt(s, p)
         IN  <<m>> \o FindIter(s, m.end)

MarkdownCell(text) == [type |-> "markdown", content |-> text, language |-> None]

CodeCell(text, language) == [type |-> "code", content |-> text, language |-> language]

\* the test that decides extraction
IsCodeLanguage(language, langs) == language \in langs

\* group(1).lower()
MatchLanguage(m) == Lower(m.group1)

\* group(2).rstrip()
CodeContent(m) == RStrip(m.group2)

RECURSIVE ExtractLoop(_, _, _, _, _, _)
\* the for loop over the matches, then the remaining markdown
ExtractLoop(section, langs, ms, k, last_end, acc) ==
    IF k > Len(ms)
    THEN LET after_content == Strip(Slice(section, last_end, Len(section) + 1))
         IN  IF after_content # <<>>
             THEN Append(acc, MarkdownCell(after_content))
             ELSE acc
    ELSE LET m == ms[k]
             language == MatchLanguage(m)
         IN  IF IsCodeLanguage(language, langs)
             THEN LET before_content == Strip(Slice(section, last_end, m.start))
                      withBefore == IF before_content # <<>>
                                    THEN Append(acc, MarkdownCell(before_content))
                                    ELSE acc
                  IN  ExtractLoop(section, langs, ms, k + 1, m.end,
                                  Append(withBefore, CodeCell(CodeContent(m), language)))
             ELSE ExtractLoop(section, langs, ms, k + 1, last_end, acc)

extract_cells_from_section(section, langs) ==
    ExtractLoop(section, langs, FindIter(section, 1), 1, 1, <<>>)

----------------------------------------------------------------------------
(* parse_markdown and main *)

\* a parse that keeps every cell
FilterNothing(cs) == cs

\* step 4: [c for c in cells if c['content'].strip()]
FilterEmpty(cs) == SelectSeq(cs, LAMBDA c : Strip(c.content) # <<>>)

RECURSIVE ExtractAll(_, _, _)
ExtractAll(secs, langs, k) ==
    IF k > Len(secs) THEN <<>>
    ELSE extract_cells_from_section(secs[k], langs) \o ExtractAll(secs, langs, k + 1)

parse_markdown(text, langs) ==
    FilterEmpty(ExtractAll(split_by_delimiter(remove_front_matter(text)), langs, 1))

\* set(args.code_languages.split(','))
ParseCodeLanguages(arg) ==
    LET parts == Split(arg, ",") IN {parts[i] : i \in 1..Len(parts)}

----------------------------------------------------------------------------
(* create_notebook; a notebook cell is its cell_type, source and metadata,   *)
(* the metadata a set of key-value pairs                                    *)

new_markdown_cell(source) ==
    [cell_type |-> "markdown", source |-> source, metadata |-> {}]

new_code_cell(source) ==
    [cell_type |-> "code", source |-> source, metadata |-> {}]

\* cell.get('language') as a condition: None and the empty string are false
HasLanguage(cell) == cell.language # None /\ cell.language # <<>>

\* a notebook that labels every code cell that has a language
SetsLanguageMetadataAlways(cell) == HasLanguage(cell)

\* the condition under which metadata['language'] is set
SetsLanguageMetadata(cell) == HasLanguage(cell) /\ cell.language # python

\* the cells one loop iteration appends to nb.cells
NotebookCells(cell) ==
    IF cell.type = "markdown" THEN <<new_markdown_cell(cell.content)>>
    ELSE IF cell.type = "code"
    THEN LET code_cell == new_code_cell(cell.content)
         IN  <<IF SetsLanguageMetadata(cell)
               THEN [code_cell EXCEPT !.metadata = {<<"language", cell.language>>}]
               ELSE code_cell>>
    ELSE <<>>

RECURSIVE create_notebook(_)
create_notebook(cs) ==
    IF cs = <<>> THEN <<>>
    ELSE NotebookCells(Head(cs)) \o create_notebook(Tail(cs))

----------------------------------------------------------------------------
(* Inputs *)

MaxLines == 5

DelimiterLine == Delimiter
TextLine == <<"x">>
BlankLine == <<" ">>
PythonFence == Fence \o python
PlainFence == Fence
CppFence == Fence \o <<"c", "+", "+">>
LongDashLine == <<"-", "-", "-", "x">>
IndentedDelimiterLine == <<" ">> \o Delimiter
TrailingSpaceDelimiterLine == Delimiter \o <<" ">>

\* lines of documents with fences and delimiters
LineVocabulary ==
    {DelimiterLine, TextLine, BlankLine, PythonFence, PlainFence, CppFence}

\* lines of documents with front matter
FrontMatterVocabulary ==
    {DelimiterLine, LongDashLine, IndentedDelimiterLine,
     TrailingSpaceDelimiterLine, TextLine, BlankLine}

DocumentsUpTo(vocabulary, max) ==
    {Join(ls, <<NL>>) : ls \in UNION {[1..n -> vocabulary] : n \in 0..max}}

DocumentsOver(vocabulary) == DocumentsUpTo(vocabulary, MaxLines)

\* lines of documents whose blocks differ in language
SqlFence == Fence \o sql

NotebookVocabulary ==
    {DelimiterLine, TextLine, BlankLine, PythonFence, SqlFence, PlainFence}

\* values of --code-languages: the default, and one with an empty member
NotebookArgs == {python \o <<",">> \o sql, sql \o <<",">>}

MaxAdjacentLines == 6

\* lines of single-section documents with several fenced blocks
AdjacentVocabulary == {PythonFence, PlainFence, CppFence, TextLine, BlankLine}

\* values of --code-languages: the default ','.join(DEFAULT_CODE_LANGUAGES)
\* and a capitalised tag
CodeLanguagesArgs == {python \o <<",">> \o sql, <<"P","y","t","h","o","n">>}

----------------------------------------------------------------------------
(* The run of main -> convert -> parse_markdown *)

InitWith(documents, args) ==
    /\ pc = "main"
    /\ args_code_languages \in args
    /\ content \in documents
    /\ code_languages = {}
    /\ pm_content = <<>>
    /\ lines = <<>>
    /\ idx = 1
    /\ sections = <<>>
    /\ current_section = <<>>
    /\ in_code_block = FALSE
    /\ sec_idx = 1
    /\ cells = <<>>
    /\ nb_cells = <<>>

InitOver(documents) == InitWith(documents, CodeLanguagesArgs)

Main ==
    /\ pc = "main"
    /\ code_languages' = ParseCodeLanguages(args_code_languages)
    /\ pc' = "front_matter"
    /\ UNCHANGED nb_cells
    /\ UNCHANGED <<args_code_languages, content, pm_content, lines, idx,
                   sections, current_section, in_code_block, sec_idx, cells>>

RemoveFrontMatter ==
    /\ pc = "front_matter"
    /\ pm_content' = remove_front_matter(content)
    /\ pc' = "split_begin"
    /\ UNCHANGED nb_cells
    /\ UNCHANGED <<args_code_languages, code_languages, content, lines, idx,
                   sections, current_section, in_code_block, sec_idx, cells>>

SplitBegin ==
    /\ pc = "split_begin"
    /\ lines' = Split(pm_content, NL)
    /\ sections' = <<>>
    /\ current_section' = <<>>
    /\ in_code_block' = FALSE
    /\ idx' = 1
    /\ pc' = "split"
    /\ UNCHANGED nb_cells
    /\ UNCHANGED <<args_code_languages, code_languages, content, pm_content,
                   sec_idx, cells>>

SplitLine ==
    /\ pc = "split"
    /\ idx <= Len(lines)
    /\ LET st == SplitStep([sections |-> sections,
                            current_section |-> current_section,
                            in_code_block |-> in_code_block], lines[idx])
       IN  /\ sections' = st.sections
           /\ current_section' = st.current_section
           /\ in_code_block' = st.in_code_block
    /\ idx' = idx + 1
    /\ UNCHANGED nb_cells
    /\ UNCHANGED <<pc, args_code_languages, code_languages, content,
                   pm_content, lines, sec_idx, cells>>

SplitEnd ==
    /\ pc = "split"
    /\ idx > Len(lines)
    /\ sections' = SplitFlush(sections, current_section)
    /\ sec_idx' = 1
    /\ cells' = <<>>
    /\ pc' = "extract"
    /\ UNCHANGED nb_cells
    /\ UNCHANGED <<args_code_languages, code_languages, content, pm_content,
                   lines, idx, current_section, in_code_block>>

ExtractSection ==
    /\ pc = "extract"
    /\ sec_idx <= Len(sections)
    /\ cells' = cells \o extract_cells_from_section(sections[sec_idx], code_languages)
    /\ sec_idx' = sec_idx + 1
    /\ UNCHANGED nb_cells
    /\ UNCHANGED <<pc, args_code_languages, code_languages, content,
                   pm_content, lines, idx, sections, current_section,
                   in_code_block>>

FilterCells ==
    /\ pc = "extract"
    /\ sec_idx > Len(sections)
    /\ cells' = FilterEmpty(cells)
    /\ pc' = "done"
    /\ UNCHANGED nb_cells
    /\ UNCHANGED <<args_code_languages, code_languages, content, pm_content,
                   lines, idx, sections, current_section, in_code_block,
                   sec_idx>>

\* convert: nb = create_notebook(cells)
CreateNotebook ==
    /\ pc = "done"
    /\ nb_cells' = create_notebook(cells)
    /\ pc' = "notebook"
    /\ UNCHANGED <<args_code_languages, code_languages, content, pm_content,
                   lines, idx, sections, current_section, in_code_block,
                   sec_idx, cells>>

Next ==
    \/ Main
    \/ RemoveFrontMatter
    \/ SplitBegin
    \/ SplitLine
    \/ SplitEnd
    \/ ExtractSection
    \/ FilterCells
    \/ CreateNotebook

Init == InitOver(DocumentsOver(LineVocabulary))

InitFrontMatter == InitOver(DocumentsOver(FrontMatterVocabulary))

InitNotebook == InitWith(DocumentsOver(NotebookVocabulary), NotebookArgs)

InitAdjacent == InitOver(DocumentsUpTo(AdjacentVocabulary, MaxAdjacentLines))

Spec == Init /\ [][Next]_vars

SpecNotebook == InitNotebook /\ [][Next]_vars

SpecAdjacent == InitAdjacent /\ [][Next]_vars

SpecFrontMatter == InitFrontMatter /\ [][Next]_vars

----------------------------------------------------------------------------
(* Vocabulary of the properties: fences and delimiters as the format        *)
(* defines them, line by line                                               *)

IsSubstring(a, b) ==
    \E p \in 0..(Len(b) - Len(a)) : SubSeq(b, p + 1, p + Len(a)) = a

IsBlank(s) == \A i \in 1..Len(s) : s[i] \in Whitespace

\* a line whose trimmed content starts with three backticks
TrimmedStartsWithFence(line) ==
    LET t == Strip(line)
    IN  Len(t) >= 3 /\ t[1] = Backtick /\ t[2] = Backtick /\ t[3] = Backtick

\* a line whose trimmed content is three dashes
TrimmedIsDelimiter(line) == Strip(line) = <<"-", "-", "-">>

FenceLinesBefore(ls, i) ==
    Cardinality({j \in 1..(i - 1) : TrimmedStartsWithFence(ls[j])})

InsideFence(ls, i) == FenceLinesBefore(ls, i) % 2 = 1

\* the last fence line before line i
OpeningFenceOf(ls, i) ==
    CHOOSE j \in 1..(i - 1) :
        /\ TrimmedStartsWithFence(ls[j])
        /\ \A k \in (j + 1)..(i - 1) : ~TrimmedStartsWithFence(ls[k])

\* the first fence line after line i
ClosingFenceOf(ls, i) ==
    CHOOSE k \in (i + 1)..Len(ls) :
        /\ TrimmedStartsWithFence(ls[k])
        /\ \A m \in (i + 1)..(k - 1) : ~TrimmedStartsWithFence(ls[m])

FencedDelimiter(ls, i) == TrimmedIsDelimiter(ls[i]) /\ InsideFence(ls, i)

\* lines j..k are a fence that really opens at j and closes at k
TrueBlock(ls, j, k) ==
    /\ j < k
    /\ TrimmedStartsWithFence(ls[j])
    /\ FenceLinesBefore(ls, j) % 2 = 0
    /\ TrimmedStartsWithFence(ls[k])
    /\ \A m \in (j + 1)..(k - 1) : ~TrimmedStartsWithFence(ls[m])

\* an opening line made of the fence marker and a tag of word characters
WellFormedOpen(line) ==
    /\ Len(line) >= 3
    /\ SubSeq(line, 1, 3) = <<Backtick, Backtick, Backtick>>
    /\ \A i \in 4..Len(line) : IsWord(line[i])

TagOf(line) == SubSeq(line, 4, Len(line))

WellFormedBlock(ls, j, k) ==
    /\ TrueBlock(ls, j, k)
    /\ WellFormedOpen(ls[j])
    /\ ls[k] = <<Backtick, Backtick, Backtick>>

InnerOf(ls, j, k) == Join(SubSeq(ls, j + 1, k - 1), <<NL>>)

\* the 1-based line of position p of s
LineOfPos(s, p) == 1 + Cardinality({q \in 1..(p - 1) : s[q] = NL})

PlainText(line) == ~IsBlank(line) /\ ~TrimmedStartsWithFence(line)

----------------------------------------------------------------------------
\* C1: a delimiter line between an opening fence line and its closing fence
\* line (an odd number of fence lines precede it) never ends a section: once
\* the loop has passed it, the lines from its opening fence through the
\* delimiter line (through the closing fence line, once that is passed) sit
\* together in the current section, or together in one saved section; after
\* the loop they are together in one returned section.
C1_FencedDelimiterStaysInSection ==
    pc \in {"split", "extract", "done"} =>
        \A i \in 1..Len(lines) :
            (i < idx /\ FencedDelimiter(lines, i)) =>
                LET j == OpeningFenceOf(lines, i)
                    closed == \E k \in (i + 1)..(idx - 1) :
                                  TrimmedStartsWithFence(lines[k])
                    last == IF closed THEN ClosingFenceOf(lines, i) ELSE i
                    span == SubSeq(lines, j, last)
                    saved == \E n \in 1..Len(sections) :
                                 IsSubstring(Strip(Join(span, <<NL>>)), sections[n])
                IN  IF pc = "split"
                    THEN IsSubstring(span, current_section) \/ saved
                    ELSE saved

\* a run that split at a top-level delimiter and kept a fenced one inside a
\* closed fence
C1_Witness ==
    /\ pc = "done"
    /\ Len(sections) >= 2
    /\ \E i \in 1..Len(lines) :
           /\ FencedDelimiter(lines, i)
           /\ \E k \in (i + 1)..Len(lines) : TrimmedStartsWithFence(lines[k])

----------------------------------------------------------------------------
\* C2: every fenced block of a section (opening line of fence marker and
\* tag, closing line exactly the fence marker) whose lower-cased tag is in the
\* allow set and whose inner content is not blank yields a code cell whose
\* content is the inner lines with trailing whitespace trimmed and whose
\* language is the lower-cased tag.
C2_AllowedBlockBecomesCodeCell ==
    pc = "done" =>
        \A n \in 1..Len(sections) :
            LET ls == Split(sections[n], NL)
            IN  \A j, k \in 1..Len(ls) :
                    ( /\ WellFormedBlock(ls, j, k)
                      /\ Lower(TagOf(ls[j])) \in code_languages
                      /\ ~IsBlank(InnerOf(ls, j, k)) )
                    => \E c \in 1..Len(cells) :
                           /\ cells[c].type = "code"
                           /\ cells[c].content = RStrip(InnerOf(ls, j, k))
                           /\ cells[c].language = Lower(TagOf(ls[j]))

----------------------------------------------------------------------------
\* C3: every match the scan considers starts at a line that really opens a
\* fence (an even number of fence lines precede it in the section) and ends
\* at the fence line that closes that same fence.
C3_MatchesAreTrueFences ==
    pc \in {"extract", "done"} =>
        \A n \in 1..Len(sections) :
            LET s == sections[n]
                ms == FindIter(s, 1)
            IN  \A i \in 1..Len(ms) :
                    TrueBlock(Split(s, NL), LineOfPos(s, ms[i].start),
                              LineOfPos(s, ms[i].end - 1))

----------------------------------------------------------------------------
\* C4: a fenced block whose tag is not in the allow set (the untagged case
\* included) never becomes a code cell: its raw text, both fence lines
\* included, is inside one markdown cell together with the prose lines next
\* to it.
C4_OtherBlockStaysInProse ==
    pc = "done" =>
        \A n \in 1..Len(sections) :
            LET ls == Split(sections[n], NL)
            IN  \A j, k \in 1..Len(ls) :
                    ( /\ WellFormedBlock(ls, j, k)
                      /\ Lower(TagOf(ls[j])) \notin code_languages )
                    => LET lo == IF j > 1 /\ PlainText(ls[j - 1]) THEN j - 1 ELSE j
                           hi == IF k < Len(ls) /\ PlainText(ls[k + 1]) THEN k + 1 ELSE k
                           raw == Strip(Join(SubSeq(ls, lo, hi), <<NL>>))
                       IN  /\ \E c \in 1..Len(cells) :
                                  /\ cells[c].type = "markdown"
                                  /\ IsSubstring(raw, cells[c].content)
                           /\ \A c \in 1..Len(cells) :
                                  cells[c].type = "code" =>
                                      ~IsSubstring(ls[j], cells[c].content)

----------------------------------------------------------------------------
(* Front matter as the format defines it: the first line is the delimiter   *)
(* line, with no leading whitespace, and the block ends at the first later  *)
(* delimiter line                                                           *)

FirstLineIsDelimiter(ls) == RStrip(ls[1]) = <<"-", "-", "-">>

LaterDelimiters(ls) == {k \in 2..Len(ls) : TrimmedIsDelimiter(ls[k])}

FirstLaterDelimiter(ls) ==
    CHOOSE k \in LaterDelimiters(ls) : \A m \in LaterDelimiters(ls) : k <= m

FrontMatterRemoved(text) ==
    LET ls == Split(text, NL)
    IN  IF FirstLineIsDelimiter(ls) /\ LaterDelimiters(ls) # {}
        THEN Join(SubSeq(ls, FirstLaterDelimiter(ls) + 1, Len(ls)), <<NL>>)
        ELSE text

UnterminatedFrontMatter(text) ==
    LET ls == Split(text, NL)
    IN  FirstLineIsDelimiter(ls) /\ LaterDelimiters(ls) = {}

\* C5: remove_front_matter returns the text unmodified when its first line
\* is not a delimiter line; when the first line is the delimiter line it
\* removes exactly the lines through the first later delimiter line, once,
\* and nothing when there is none.
C5_FrontMatterOnlyAfterDelimiterLine ==
    pc \notin {"main", "front_matter"} =>
        LET ls == Split(content, NL)
        IN  /\ ~TrimmedIsDelimiter(ls[1]) => pm_content = content
            /\ FirstLineIsDelimiter(ls) => pm_content = FrontMatterRemoved(content)

----------------------------------------------------------------------------
\* C6: when the text starts with a delimiter line and no later line is a
\* delimiter line, remove_front_matter returns the text unmodified, and
\* parse_markdown still yields cells from it: every line of text after the
\* first is in some cell.
C6_UnterminatedFrontMatterIsKept ==
    UnterminatedFrontMatter(content) =>
        /\ pc \notin {"main", "front_matter"} => pm_content = content
        /\ pc = "done" =>
               LET ls == Split(content, NL)
               IN  \A k \in 2..Len(ls) :
                       PlainText(ls[k]) =>
                           \E c \in 1..Len(cells) :
                               IsSubstring(Strip(ls[k]), cells[c].content)

C6_Witness ==
    /\ pc = "done"
    /\ UnterminatedFrontMatter(content)
    /\ \E k \in 2..Len(Split(content, NL)) : PlainText(Split(content, NL)[k])
    /\ cells # <<>>

----------------------------------------------------------------------------
\* C7: no section held or returned by split_by_delimiter is empty or
\* whitespace-only, no cell returned by parse_markdown has empty or
\* whitespace-only content, and a document of blank and delimiter lines only
\* (the all-whitespace document included) yields the empty list.
C7_NoBlankSectionOrCell ==
    /\ \A n \in 1..Len(sections) : ~IsBlank(sections[n])
    /\ pc = "done" =>
           /\ \A c \in 1..Len(cells) : ~IsBlank(cells[c].content)
           /\ LET ls == Split(content, NL)
              IN  (\A k \in 1..Len(ls) : IsBlank(ls[k]) \/ TrimmedIsDelimiter(ls[k]))
                      => cells = <<>>

\* a run with consecutive delimiter lines where an empty code block was
\* dropped and a cell remains
C7_Witness ==
    /\ pc = "done"
    /\ cells # <<>>
    /\ Len(ExtractAll(sections, code_languages, 1)) > Len(cells)
    /\ \E k \in 1..(Len(lines) - 1) :
           TrimmedIsDelimiter(lines[k]) /\ TrimmedIsDelimiter(lines[k + 1])

----------------------------------------------------------------------------
\* C8: a block the scan matches is extracted as a code cell exactly when its
\* tag equals some member of the allow set ignoring letter case.
C8_AllowSetIgnoresCase ==
    pc = "done" =>
        \A n \in 1..Len(sections) :
            LET ms == FindIter(sections[n], 1)
            IN  \A i \in 1..Len(ms) :
                    ~IsBlank(ms[i].group2) =>
                        ( (\E l \in code_languages : Lower(l) = Lower(ms[i].group1))
                          <=> (\E c \in 1..Len(cells) :
                                  /\ cells[c].type = "code"
                                  /\ cells[c].language = Lower(ms[i].group1)
                                  /\ cells[c].content = RStrip(ms[i].group2)) )

----------------------------------------------------------------------------
(* C9: the lines of the cells against the lines of the document *)

RECURSIVE TopLevelKept(_, _)
\* the lines of ls from k on that are not top-level delimiter lines
TopLevelKept(ls, k) ==
    IF k > Len(ls) THEN <<>>
    ELSE IF TrimmedIsDelimiter(ls[k]) /\ ~InsideFence(ls, k)
         THEN TopLevelKept(ls, k + 1)
         ELSE <<ls[k]>> \o TopLevelKept(ls, k + 1)

RECURSIVE CellLines(_, _)
CellLines(cs, k) ==
    IF k > Len(cs) THEN <<>>
    ELSE Split(cs[k].content, NL) \o CellLines(cs, k + 1)

NumCodeCells(cs) == Cardinality({c \in 1..Len(cs) : cs[c].type = "code"})

RECURSIVE SameUpTo(_, _, _)
\* C is K, in order, less blank lines trimmed away and less exactly `fences`
\* fence lines, each line compared up to surrounding whitespace
SameUpTo(K, C, fences) ==
    IF K = <<>> THEN C = <<>> /\ fences = 0
    ELSE \/ /\ C # <<>>
            /\ Strip(K[1]) = Strip(C[1])
            /\ SameUpTo(Tail(K), Tail(C), fences)
         \/ /\ IsBlank(K[1])
            /\ SameUpTo(Tail(K), C, fences)
         \/ /\ fences > 0
            /\ TrimmedStartsWithFence(K[1])
            /\ SameUpTo(Tail(K), C, fences - 1)

\* C9: the lines of the cell contents, in order, are the lines of the
\* document after removal of one front-matter block, less the top-level
\* delimiter lines and the two fence lines of each extracted code block, up
\* to trimmed whitespace; nothing else is dropped, duplicated or reordered.
C9_CellsAreLossless ==
    pc = "done" =>
        SameUpTo(TopLevelKept(Split(FrontMatterRemoved(content), NL), 1),
                 CellLines(cells, 1),
                 2 * NumCodeCells(ExtractAll(sections, code_languages, 1)))

----------------------------------------------------------------------------
\* C10: splitting the sections joined by delimiter lines returns the same
\* sections.
C10_ResplitIsIdentity ==
    pc \in {"extract", "done"} =>
        split_by_delimiter(Join(sections, <<NL, "-", "-", "-", NL>>)) = sections

\* two sections or more, a fenced delimiter line and a fence left open
C10_Witness ==
    /\ pc = "done"
    /\ Len(sections) >= 2
    /\ in_code_block
    /\ \E i \in 1..Len(lines) : FencedDelimiter(lines, i)

----------------------------------------------------------------------------
\* C11: when two extractable fenced blocks follow one another in a section
\* with only blank lines between them, extract_cells_from_section emits their
\* two code cells one right after the other, in source order. Stated on the
\* cells of the first section, right after its extraction.
C11_AdjacentBlocksGiveAdjacentCells ==
    (pc = "extract" /\ sec_idx = 2) =>
        LET ls == Split(sections[1], NL)
        IN  \A j1, k1 \in 1..Len(ls) :
                ( /\ WellFormedBlock(ls, j1, k1)
                  /\ Lower(TagOf(ls[j1])) \in code_languages )
                => \A j2, k2 \in (k1 + 1)..Len(ls) :
                       ( /\ \A m \in (k1 + 1)..(j2 - 1) : IsBlank(ls[m])
                         /\ WellFormedBlock(ls, j2, k2)
                         /\ Lower(TagOf(ls[j2])) \in code_languages )
                       => \E c \in 1..(Len(cells) - 1) :
                              /\ cells[c].type = "code"
                              /\ cells[c].content = RStrip(InnerOf(ls, j1, k1))
                              /\ cells[c].language = Lower(TagOf(ls[j1]))
                              /\ cells[c + 1].type = "code"
                              /\ cells[c + 1].content = RStrip(InnerOf(ls, j2, k2))
                              /\ cells[c + 1].language = Lower(TagOf(ls[j2]))

----------------------------------------------------------------------------
(* C12: the notebook cells against the cell list *)

\* notebook cell i is cell i of the list: a text cell for a markdown cell, an
\* executable cell for a code cell, with the same content
MapsOneToOne ==
    /\ Len(nb_cells) = Len(cells)
    /\ \A i \in 1..Len(cells) :
           /\ nb_cells[i].cell_type = cells[i].type
           /\ nb_cells[i].source = cells[i].content
           /\ cells[i].type = "markdown" => nb_cells[i].metadata = {}

\* C12 as stated: the mapping is one to one and in order; a code cell whose
\* language differs from python carries it as metadata language, a code cell
\* whose language is python carries no metadata.
C12_Original ==
    pc = "notebook" =>
        /\ MapsOneToOne
        /\ \A i \in 1..Len(cells) :
               cells[i].type = "code" =>
                   IF cells[i].language # <<"p","y","t","h","o","n">>
                   THEN nb_cells[i].metadata = {<<"language", cells[i].language>>}
                   ELSE nb_cells[i].metadata = {}

\* C12 amended: the mapping is one to one and in order; a code cell whose
\* language is not empty and differs from python carries it as metadata
\* language, a code cell whose language is python or empty carries no
\* metadata.
C12_NotebookCellsFollowCells ==
    pc = "notebook" =>
        /\ MapsOneToOne
        /\ \A i \in 1..Len(cells) :
               cells[i].type = "code" =>
                   IF /\ cells[i].language # <<"p","y","t","h","o","n">>
                      /\ cells[i].language # <<>>
                   THEN nb_cells[i].metadata = {<<"language", cells[i].language>>}
                   ELSE nb_cells[i].metadata = {}

\* a notebook with a text cell and a code cell labelled with its language
C12_Witness ==
    /\ pc = "notebook"
    /\ \E i, j \in 1..Len(cells) :
           /\ cells[i].type = "markdown"
           /\ cells[j].type = "code"
           /\ cells[j].language = <<"s","q","l">>
           /\ nb_cells[j].metadata = {<<"language", <<"s","q","l">>>>}

----------------------------------------------------------------------------
IsSuffix(a, b) ==
    Len(a) <= Len(b) /\ SubSeq(b, Len(b) - Len(a) + 1, Len(b)) = a

\* C13: while an odd number of fence lines has been read, the fence state
\* stays open and every line from the last fence line on, delimiter lines
\* included, is kept at the end of the current section; when the input ends
\* that way, those lines are the end of the last section returned.
C13_OpenFenceKeepsTheRest ==
    (pc \in {"split", "extract", "done", "notebook"}
        /\ FenceLinesBefore(lines, idx) % 2 = 1) =>
        LET j == OpeningFenceOf(lines, idx)
            rest == SubSeq(lines, j, idx - 1)
        IN  /\ in_code_block
            /\ IsSuffix(rest, current_section)
            /\ pc # "split" =>
                   /\ sections # <<>>
                   /\ IsSuffix(Strip(Join(rest, <<NL>>)), sections[Len(sections)])

\* an input that ends inside a fence, with a delimiter line and a text line
\* after the fence line and a section before it
C13_Witness ==
    /\ pc = "done"
    /\ FenceLinesBefore(lines, idx) % 2 = 1
    /\ Len(sections) >= 2
    /\ LET j == OpeningFenceOf(lines, idx)
       IN  /\ \E i \in (j + 1)..Len(lines) : TrimmedIsDelimiter(lines[i])
           /\ \E i \in (j + 1)..Len(lines) :
                  PlainText(lines[i]) /\ ~TrimmedIsDelimiter(lines[i])

====
